---------------------------- MODULE Spec2Model ----------------------------
(***************************************************************************)
(* A model of the METAR decoder web application (src/app.py).              *)
(*                                                                         *)
(* Text is modelled as a sequence of one-character strings, so that        *)
(* slicing, splitting, case mapping, number parsing and number formatting  *)
(* are computed as the code computes them.  The degree sign U+00B0 is      *)
(* written "deg".                                                          *)
(***************************************************************************)
EXTENDS Integers, Sequences, FiniteSets, TLC

VARIABLES
    pc,         \* position of the operation being run
    code,       \* validate_icao: its argument
    valid,      \* validate_icao: its result
    degrees,    \* _degrees_to_cardinal: its argument
    cardinal,   \* _degrees_to_cardinal: its result
    items,      \* _deduplicate_preserve_order: its argument
    result,     \* _deduplicate_preserve_order: its result
    method,     \* index: request.method
    form_icao,  \* index: request.form.get('icao', '')
    icao_code,  \* index: the trimmed, upper-cased code
    response,   \* fetch_metar: what the remote service answered
    raw_metar,  \* index / parse_metar: the raw report
    frame,      \* parse_metar: its local variables when it was left
    translated, \* index / parse_metar: the decoded text
    error,      \* index: the error message
    raised,     \* the exception that left the operation, or "none"
    calls       \* index: the functions called by the request, in order

vars == <<pc, code, valid, degrees, cardinal, items, result, method, form_icao,
          icao_code, response, raw_metar, frame, translated, error, raised, calls>>

-----------------------------------------------------------------------------
(* Bounds of the model *)

MaxCodeLen == 5
MaxBearing == 360
MaxItems == 3
MaxTokens == 3
MaxLines == 2

-----------------------------------------------------------------------------
(* Characters and built-in string operations *)

UpperLetters == <<"A","B","C","D","E","F","G","H","I","J","K","L","M","N","O","P","Q","R","S","T","U","V","W","X","Y","Z">>
LowerLetters == <<"a","b","c","d","e","f","g","h","i","j","k","l","m","n","o","p","q","r","s","t","u","v","w","x","y","z">>
Digits == <<"0","1","2","3","4","5","6","7","8","9">>

Range(s) == {s[i] : i \in 1..Len(s)}

IndexIn(c, s) == CHOOSE i \in 1..Len(s) : s[i] = c

IsUpper(c) == c \in Range(UpperLetters)
IsLower(c) == c \in Range(LowerLetters)
IsAlpha(c) == IsUpper(c) \/ IsLower(c)
IsDigitChar(c) == c \in Range(Digits)
IsSpace(c) == c \in {" ", "\n", "\t", "\r"}

LowerChar(c) == IF IsUpper(c) THEN LowerLetters[IndexIn(c, UpperLetters)] ELSE c
UpperChar(c) == IF IsLower(c) THEN UpperLetters[IndexIn(c, LowerLetters)] ELSE c

\* str.lower(), str.upper()
Lower(s) == [i \in 1..Len(s) |-> LowerChar(s[i])]
Upper(s) == [i \in 1..Len(s) |-> UpperChar(s[i])]

\* s[a:b] with 0-based, end-exclusive, clamped bounds (a, b >= 0)
Slice(s, a, b) ==
    LET lo == IF a > Len(s) THEN Len(s) ELSE a
        hi == IF b > Len(s) THEN Len(s) ELSE b
    IN  IF hi <= lo THEN <<>> ELSE SubSeq(s, lo + 1, hi)

\* s[a:]
SliceFrom(s, a) == Slice(s, a, Len(s))

\* s[:-n] (n > 0)
DropLast(s, n) == IF Len(s) <= n THEN <<>> ELSE SubSeq(s, 1, Len(s) - n)

\* str.startswith, str.endswith
StartsWith(s, p) == Len(s) >= Len(p) /\ SubSeq(s, 1, Len(p)) = p
EndsWith(s, p) == Len(s) >= Len(p) /\ SubSeq(s, Len(s) - Len(p) + 1, Len(s)) = p

\* str.isdigit() over ASCII text
IsDigitStr(s) == Len(s) > 0 /\ \A i \in 1..Len(s) : IsDigitChar(s[i])

\* c in s, for a character c
Contains(s, c) == \E i \in 1..Len(s) : s[i] = c

RECURSIVE Concat(_)
Concat(ss) == IF ss = <<>> THEN <<>> ELSE Head(ss) \o Concat(Tail(ss))

\* sep.join(ss)
RECURSIVE Join(_, _)
Join(sep, ss) ==
    IF ss = <<>> THEN <<>>
    ELSE IF Len(ss) = 1 THEN ss[1]
    ELSE ss[1] \o sep \o Join(sep, Tail(ss))

\* s.split(c) for a one-character separator: every separator cuts, empty
\* pieces are kept
RECURSIVE SplitOn(_, _)
SplitOn(s, c) ==
    IF ~Contains(s, c) THEN <<s>>
    ELSE LET i == CHOOSE k \in 1..Len(s) : s[k] = c /\ \A j \in 1..(k - 1) : s[j] # c
         IN  <<SubSeq(s, 1, i - 1)>> \o SplitOn(SubSeq(s, i + 1, Len(s)), c)

\* s.split(): cut at runs of whitespace, no empty pieces
RECURSIVE SplitWs(_)
SplitWs(s) ==
    IF s = <<>> THEN <<>>
    ELSE IF IsSpace(s[1]) THEN SplitWs(Tail(s))
    ELSE LET n == IF \E k \in 1..Len(s) : IsSpace(s[k])
                  THEN (CHOOSE k \in 1..Len(s) :
                            IsSpace(s[k]) /\ \A j \in 1..(k - 1) : ~IsSpace(s[j])) - 1
                  ELSE Len(s)
         IN  <<SubSeq(s, 1, n)>> \o SplitWs(SubSeq(s, n + 1, Len(s)))

\* s.strip()
RECURSIVE StripLeft(_)
StripLeft(s) == IF s # <<>> /\ IsSpace(s[1]) THEN StripLeft(Tail(s)) ELSE s
RECURSIVE StripRight(_)
StripRight(s) ==
    IF s # <<>> /\ IsSpace(s[Len(s)]) THEN StripRight(SubSeq(s, 1, Len(s) - 1)) ELSE s
Strip(s) == StripRight(StripLeft(s))

\* s.splitlines() for "\n" line ends: the text after the last "\n" is a
\* line only when it is not empty
SplitLines(s) ==
    LET parts == SplitOn(s, "\n")
    IN  IF parts[Len(parts)] = <<>> THEN SubSeq(parts, 1, Len(parts) - 1) ELSE parts

\* s.replace("  ", " "): left to right, non-overlapping
RECURSIVE ReplaceDoubleSpace(_)
ReplaceDoubleSpace(s) ==
    IF Len(s) < 2 THEN s
    ELSE IF s[1] = " " /\ s[2] = " " THEN <<" ">> \o ReplaceDoubleSpace(SubSeq(s, 3, Len(s)))
    ELSE <<s[1]>> \o ReplaceDoubleSpace(Tail(s))

RECURSIVE Pow10(_)
Pow10(n) == IF n = 0 THEN 1 ELSE 10 * Pow10(n - 1)

\* int(s) for a string of ASCII digits
RECURSIVE DigitsToInt(_)
DigitsToInt(s) ==
    IF s = <<>> THEN 0
    ELSE 10 * DigitsToInt(SubSeq(s, 1, Len(s) - 1)) + (IndexIn(s[Len(s)], Digits) - 1)

\* str(n), n >= 0
RECURSIVE NatToStr(_)
NatToStr(n) ==
    IF n < 10 THEN <<Digits[n + 1]>> ELSE NatToStr(n \div 10) \o <<Digits[(n % 10) + 1]>>

\* str(n)
IntToStr(n) == IF n < 0 THEN <<"-">> \o NatToStr(-n) ELSE NatToStr(n)

\* int(s): an optional sign and ASCII digits, anything else is a ValueError
IntOk(s) ==
    LET body == IF s # <<>> /\ s[1] \in {"+", "-"} THEN Tail(s) ELSE s
    IN  IsDigitStr(body)
IntOf(s) ==
    IF s[1] = "-" THEN -DigitsToInt(Tail(s))
    ELSE IF s[1] = "+" THEN DigitsToInt(Tail(s))
    ELSE DigitsToInt(s)

\* The end of a pattern, "$": the end of the text, or just before a newline
\* that ends the text.  n characters have been matched.
AtEnd(s, n) == Len(s) = n \/ (Len(s) = n + 1 /\ s[n + 1] = "\n")

-----------------------------------------------------------------------------
(* Lookup tables *)

\* CLOUD_COVER_MAP, in insertion order: <<code, description>>
CLOUD_COVER_MAP == <<
    <<<<"S","K","C">>, <<"c","l","e","a","r"," ","s","k","y">>>>,
    <<<<"C","L","R">>, <<"c","l","e","a","r"," ","s","k","y">>>>,
    <<<<"C","A","V","O","K">>, <<"c","e","i","l","i","n","g"," ","a","n","d"," ","v","i","s","i","b","i","l","i","t","y"," ","O","K">>>>,
    <<<<"F","E","W">>, <<"f","e","w"," ","c","l","o","u","d","s">>>>,
    <<<<"S","C","T">>, <<"s","c","a","t","t","e","r","e","d"," ","c","l","o","u","d","s">>>>,
    <<<<"B","K","N">>, <<"b","r","o","k","e","n"," ","c","l","o","u","d","s">>>>,
    <<<<"O","V","C">>, <<"o","v","e","r","c","a","s","t">>>> >>

\* WEATHER_CODES, in insertion order: <<code, description>>
WEATHER_CODES == <<
    <<<<"R","A">>, <<"r","a","i","n">>>>,
    <<<<"D","Z">>, <<"d","r","i","z","z","l","e">>>>,
    <<<<"S","N">>, <<"s","n","o","w">>>>,
    <<<<"T","S">>, <<"t","h","u","n","d","e","r","s","t","o","r","m">>>>,
    <<<<"B","R">>, <<"m","i","s","t">>>>,
    <<<<"F","G">>, <<"f","o","g">>>>,
    <<<<"H","Z">>, <<"h","a","z","e">>>>,
    <<<<"F","U">>, <<"s","m","o","k","e">>>>,
    <<<<"S","G">>, <<"s","n","o","w"," ","g","r","a","i","n","s">>>>,
    <<<<"P","L">>, <<"i","c","e"," ","p","e","l","l","e","t","s">>>>,
    <<<<"G","R">>, <<"h","a","i","l">>>>,
    <<<<"G","S">>, <<"s","m","a","l","l"," ","h","a","i","l">>>>,
    <<<<"S","S">>, <<"s","a","n","d","s","t","o","r","m">>>>,
    <<<<"D","S">>, <<"d","u","s","t","s","t","o","r","m">>>> >>

CARDINAL_DIRECTIONS == <<
    <<"n","o","r","t","h">>,
    <<"n","o","r","t","h","-","n","o","r","t","h","e","a","s","t">>,
    <<"n","o","r","t","h","e","a","s","t">>,
    <<"e","a","s","t","-","n","o","r","t","h","e","a","s","t">>,
    <<"e","a","s","t">>,
    <<"e","a","s","t","-","s","o","u","t","h","e","a","s","t">>,
    <<"s","o","u","t","h","e","a","s","t">>,
    <<"s","o","u","t","h","-","s","o","u","t","h","e","a","s","t">>,
    <<"s","o","u","t","h">>,
    <<"s","o","u","t","h","-","s","o","u","t","h","w","e","s","t">>,
    <<"s","o","u","t","h","w","e","s","t">>,
    <<"w","e","s","t","-","s","o","u","t","h","w","e","s","t">>,
    <<"w","e","s","t">>,
    <<"w","e","s","t","-","n","o","r","t","h","w","e","s","t">>,
    <<"n","o","r","t","h","w","e","s","t">>,
    <<"n","o","r","t","h","-","n","o","r","t","h","w","e","s","t">> >>

\* key in table, table[key]
HasKey(table, key) == \E i \in 1..Len(table) : table[i][1] = key
Lookup(table, key) == table[CHOOSE i \in 1..Len(table) : table[i][1] = key][2]

-----------------------------------------------------------------------------
(* validate_icao *)

\* ICAO_PATTERN.match(code): ^[A-Za-z]{4}$
ICAO_PATTERN(s) ==
    /\ Len(s) >= 4
    /\ \A i \in 1..4 : IsAlpha(s[i])
    /\ AtEnd(s, 4)

validate_icao(c) == ICAO_PATTERN(c)

-----------------------------------------------------------------------------
(* _degrees_to_cardinal *)

\* CardinalIndex with the "+ 0.5" left out: the quotient is cut, not rounded
CardinalIndexTruncated(d) == ((4 * (d % 360)) \div 90) % Len(CARDINAL_DIRECTIONS)

\* int((degrees % 360) / 22.5 + 0.5) % len(CARDINAL_DIRECTIONS), 0-based.
\* (d % 360) / 22.5 + 0.5 is (4 * (d % 360) + 45) / 90, and int() truncates
\* a non-negative value downwards.
CardinalIndex(d) == ((4 * (d % 360) + 45) \div 90) % Len(CARDINAL_DIRECTIONS)

degrees_to_cardinal(d) == CARDINAL_DIRECTIONS[CardinalIndex(d) + 1]

-----------------------------------------------------------------------------
(* _deduplicate_preserve_order *)

\* The loop of _deduplicate_preserve_order from item i on, with the keys
\* seen and the result built so far.
RECURSIVE DedupLoop(_, _, _, _)
DedupLoop(its, i, seen, res) ==
    IF i > Len(its) THEN res
    ELSE LET key == Lower(its[i])
         IN  IF key \notin seen
             THEN DedupLoop(its, i + 1, seen \cup {key}, Append(res, its[i]))
             ELSE DedupLoop(its, i + 1, seen, res)

\* _deduplicate_preserve_order with "key = item" for "key = item.lower()"
RECURSIVE DedupLoopCaseSensitive(_, _, _, _)
DedupLoopCaseSensitive(its, i, seen, res) ==
    IF i > Len(its) THEN res
    ELSE IF its[i] \notin seen
    THEN DedupLoopCaseSensitive(its, i + 1, seen \cup {its[i]}, Append(res, its[i]))
    ELSE DedupLoopCaseSensitive(its, i + 1, seen, res)
deduplicate_case_sensitive(its) == DedupLoopCaseSensitive(its, 1, {}, <<>>)

deduplicate_preserve_order(its) == DedupLoop(its, 1, {}, <<>>)

-----------------------------------------------------------------------------
(* Values of the decoder *)

\* Python's None
None == <<"<None>">>

\* What a call gives: the exception that left it ("none" when it returned)
\* and the value it returned.
Returned(v) == [exc |-> "none", val |-> v]
Raised(e) == [exc |-> e, val |-> None]

\* A float is kept as the fraction <<n, d>> it was computed from, d > 0.
\* float(s) for an unsigned decimal such as "10" or "2.5".  Signed,
\* exponent, "inf" and "nan" spellings are not part of the modelled reports.
FloatOk(s) ==
    LET parts == SplitOn(s, ".")
    IN  /\ Len(parts) \in {1, 2}
        /\ \A i \in 1..Len(parts) : parts[i] = <<>> \/ IsDigitStr(parts[i])
        /\ \E i \in 1..Len(parts) : parts[i] # <<>>
FloatOf(s) ==
    LET parts == SplitOn(s, ".")
        frac == IF Len(parts) = 2 THEN parts[2] ELSE <<>>
    IN  <<DigitsToInt(parts[1] \o frac), Pow10(Len(frac))>>

\* n / d rounded to the nearest integer, a tie going to the even one
RoundHalfEven(n, d) ==
    LET q == n \div d
        r == n % d
    IN  IF 2 * r < d THEN q
        ELSE IF 2 * r > d THEN q + 1
        ELSE IF q % 2 = 0 THEN q ELSE q + 1

RECURSIVE StripZeros(_)
StripZeros(s) ==
    IF s # <<>> /\ s[Len(s)] = "0" THEN StripZeros(SubSeq(s, 1, Len(s) - 1)) ELSE s

\* The decimal exponent of n / d > 0: the x with 10^x <= n / d < 10^(x + 1)
RECURSIVE ExpUp(_, _, _)
ExpUp(n, d, x) == IF n >= 10 * d THEN ExpUp(n, 10 * d, x + 1) ELSE x
RECURSIVE ExpDown(_, _, _)
ExpDown(n, d, x) == IF n < d THEN ExpDown(10 * n, d, x - 1) ELSE x
Exponent(n, d) == IF n >= d THEN ExpUp(n, d, 0) ELSE ExpDown(n, d, 0)

\* n / d > 0 with decimal exponent x, rounded to six significant digits: the
\* digits as a number
Mantissa(n, d, x) ==
    IF x <= 5 THEN RoundHalfEven(n * Pow10(5 - x), d) ELSE RoundHalfEven(n, d * Pow10(x - 5))

\* "d.ddddd" cut of its trailing zeros, for the six digits given
Fraction(digits) == IF StripZeros(digits) = <<>> THEN <<>> ELSE <<".">> \o StripZeros(digits)

\* The six digits and the exponent x written as format() writes them: fixed
\* notation for x in -4..5, else d.ddddde+xx
WriteG(six, x) ==
    IF x >= 0 /\ x <= 5 THEN SubSeq(six, 1, x + 1) \o Fraction(SubSeq(six, x + 2, 6))
    ELSE IF x < 0 /\ x >= -4 THEN <<"0", ".">> \o [i \in 1..(-x - 1) |-> "0"] \o StripZeros(six)
    ELSE IF x < 0
    THEN <<six[1]>> \o Fraction(Tail(six)) \o <<"e", "-">>
         \o (IF -x < 10 THEN <<"0">> ELSE <<>>) \o NatToStr(-x)
    ELSE <<six[1]>> \o Fraction(Tail(six)) \o <<"e", "+">>
         \o (IF x < 10 THEN <<"0">> ELSE <<>>) \o NatToStr(x)

\* Rounding up to 1000000 moves to the next exponent
Normalized(m, x) == IF m = 1000000 THEN WriteG(NatToStr(100000), x + 1) ELSE WriteG(NatToStr(m), x)

FormatGExp(n, d, x) == Normalized(Mantissa(n, d, x), x)

\* format(n / d, "g") for n > 0: six significant digits, trailing zeros
\* dropped
FormatGPos(n, d) == FormatGExp(n, d, Exponent(n, d))

FormatG(f) ==
    IF f[1] = 0 THEN <<"0">>
    ELSE IF f[1] < 0 THEN <<"-">> \o FormatGPos(-f[1], f[2])
    ELSE FormatGPos(f[1], f[2])

-----------------------------------------------------------------------------
(* Sky conditions *)

\* The loop of _extract_sky_conditions from token i on
RECURSIVE SkyLoop(_, _, _)
SkyLoop(tokens, i, conditions) ==
    IF i > Len(tokens) THEN conditions
    ELSE LET token == tokens[i]
             coverage_code == Slice(token, 0, 3)
         IN  IF token \in {<<"N","I","L">>, <<"A","U","T","O">>, <<"C","O","R">>}
             THEN SkyLoop(tokens, i + 1, conditions)
             ELSE IF token = <<"C","A","V","O","K">>
             THEN SkyLoop(tokens, i + 1, Append(conditions, <<"C","e","i","l","i","n","g"," ","a","n","d"," ","v","i","s","i","b","i","l","i","t","y"," ","O","K">>))
             ELSE IF HasKey(CLOUD_COVER_MAP, coverage_code) /\ IsDigitStr(Slice(token, 3, 6))
             THEN LET height == DigitsToInt(Slice(token, 3, 6)) * 100
                      description == Lookup(CLOUD_COVER_MAP, coverage_code)
                  IN  SkyLoop(tokens, i + 1,
                              Append(conditions,
                                     description \o <<" ","a","t"," ">> \o IntToStr(height) \o <<" ","f","t">>))
             ELSE IF token \in {<<"S","K","C">>, <<"C","L","R">>}
             THEN IF \A k \in 1..Len(conditions) : conditions[k] # <<"C","l","e","a","r"," ","s","k","y">>
                  THEN SkyLoop(tokens, i + 1, Append(conditions, <<"C","l","e","a","r"," ","s","k","y">>))
                  ELSE SkyLoop(tokens, i + 1, conditions)
             ELSE SkyLoop(tokens, i + 1, conditions)

extract_sky_conditions(tokens) == SkyLoop(tokens, 1, <<>>)

-----------------------------------------------------------------------------
(* Temperature and dew point *)

\* TEMP_PATTERN.match(token): ^(?P<temp>M?\d{2})/(?P<dew>M?\d{2})$
\* a and b are the lengths of the two optional "M"
TempM1(s) == IF Len(s) >= 1 /\ s[1] = "M" THEN 1 ELSE 0
TempM2(s) == IF Len(s) >= TempM1(s) + 4 /\ s[TempM1(s) + 4] = "M" THEN 1 ELSE 0
TEMP_PATTERN(s) ==
    LET a == TempM1(s)
        b == TempM2(s)
    IN  /\ Len(s) >= a + b + 5
        /\ IsDigitStr(Slice(s, a, a + 2))
        /\ s[a + 3] = "/"
        /\ IsDigitStr(Slice(s, a + 3 + b, a + b + 5))
        /\ AtEnd(s, a + b + 5)
TempGroup(s) == Slice(s, 0, TempM1(s) + 2)
DewGroup(s) == Slice(s, TempM1(s) + 3, TempM1(s) + TempM2(s) + 5)

decode_temperature(value) ==
    IF StartsWith(value, <<"M">>) THEN -IntOf(SliceFrom(value, 1)) ELSE IntOf(value)

\* The loop "for token in tokens: match = TEMP_PATTERN.match(token)" from
\* token i on: the index of the first token matched, 0 when there is none
RECURSIVE TempLoop(_, _)
TempLoop(tokens, i) ==
    IF i > Len(tokens) THEN 0
    ELSE IF TEMP_PATTERN(tokens[i]) THEN i
    ELSE TempLoop(tokens, i + 1)

extract_temperature(tokens) ==
    LET i == TempLoop(tokens, 1)
    IN  IF i = 0 THEN None
        ELSE <<"T","e","m","p","e","r","a","t","u","r","e"," ">> \o IntToStr(decode_temperature(TempGroup(tokens[i]))) \o <<"deg","C">>

extract_dew_point(tokens) ==
    LET i == TempLoop(tokens, 1)
    IN  IF i = 0 THEN None
        ELSE <<"D","e","w"," ","p","o","i","n","t"," ">> \o IntToStr(decode_temperature(DewGroup(tokens[i]))) \o <<"deg","C">>

-----------------------------------------------------------------------------
(* Wind *)

\* WIND_PATTERN.match(token):
\* ^(?P<direction>\d{3}|VRB)(?P<speed>\d{2,3})(G(?P<gust>\d{2,3}))?KT$
\* sl and gl are the lengths of the speed and gust groups (gl = 0: no gust)
WindShape(s, sl, gl) ==
    LET g == IF gl = 0 THEN 0 ELSE gl + 1
    IN  /\ Len(s) >= 3 + sl + g + 2
        /\ (IsDigitStr(Slice(s, 0, 3)) \/ Slice(s, 0, 3) = <<"V","R","B">>)
        /\ IsDigitStr(Slice(s, 3, 3 + sl))
        /\ gl # 0 => (s[3 + sl + 1] = "G" /\ IsDigitStr(Slice(s, 3 + sl + 1, 3 + sl + g)))
        /\ Slice(s, 3 + sl + g, 3 + sl + g + 2) = <<"K","T">>
        /\ AtEnd(s, 3 + sl + g + 2)
WIND_PATTERN(s) == \E sl \in {2, 3}, gl \in {0, 2, 3} : WindShape(s, sl, gl)
WindLens(s) == CHOOSE p \in {2, 3} \X {0, 2, 3} : WindShape(s, p[1], p[2])

\* match.group("direction"), match.group("speed"), match.group("gust") for
\* the group lengths lens
WindGroupsOf(s, lens) ==
    [direction |-> Slice(s, 0, 3),
     speed |-> Slice(s, 3, 3 + lens[1]),
     gust |-> IF lens[2] = 0 THEN None ELSE Slice(s, 3 + lens[1] + 1, 3 + lens[1] + 1 + lens[2])]
WindGroups(s) == WindGroupsOf(s, WindLens(s))

\* The loop "for token in tokens: match = WIND_PATTERN.match(token)" from
\* token i on: the index of the first token matched, 0 when there is none
RECURSIVE WindLoop(_, _)
WindLoop(tokens, i) ==
    IF i > Len(tokens) THEN 0
    ELSE IF WIND_PATTERN(tokens[i]) THEN i
    ELSE WindLoop(tokens, i + 1)

DirectionPhrase(direction_degrees) ==
    <<"W","i","n","d"," ","f","r","o","m"," ","t","h","e"," ">> \o degrees_to_cardinal(direction_degrees)
    \o <<" ","(">> \o IntToStr(direction_degrees) \o <<"deg",")">>

\* The body of the loop of _extract_wind for a matched token
WindPhrase(direction, speed, gust) ==
    IF speed = 0 THEN <<"C","a","l","m"," ","w","i","n","d","s">>
    ELSE (IF direction = <<"V","R","B">> THEN <<"V","a","r","i","a","b","l","e"," ","w","i","n","d","s">>
          ELSE DirectionPhrase(IntOf(direction)))
         \o <<" ","a","t"," ">> \o IntToStr(speed) \o <<" ","k","t">>
         \o (IF gust # None THEN <<","," ","g","u","s","t","i","n","g"," ","t","o"," ">> \o IntToStr(IntOf(gust)) \o <<" ","k","t">>
             ELSE <<>>)

WindPhraseOf(m) == WindPhrase(m.direction, IntOf(m.speed), m.gust)

WindAt(tokens, i) == IF i = 0 THEN None ELSE WindPhraseOf(WindGroups(tokens[i]))

extract_wind(tokens) == WindAt(tokens, WindLoop(tokens, 1))

-----------------------------------------------------------------------------
(* Visibility *)

\* int(numerator) / int(denominator): the division raises ZeroDivisionError
Divide(numerator, denominator) ==
    IF denominator = 0 THEN Raised("ZeroDivisionError")
    ELSE IF denominator < 0 THEN Returned(<<-numerator, -denominator>>)
    ELSE Returned(<<numerator, denominator>>)

\* numerator, denominator = parts: the unpacking and the two int() raise
\* ValueError
FractionOf(parts) ==
    IF Len(parts) # 2 THEN Raised("ValueError")
    ELSE IF ~IntOk(parts[1]) \/ ~IntOk(parts[2]) THEN Raised("ValueError")
    ELSE Divide(IntOf(parts[1]), IntOf(parts[2]))

fraction_to_float(value) == FractionOf(SplitOn(value, "/"))

\* float(whole) + frac, unless the fraction raised
AddFloats(whole, frac) ==
    IF frac.exc # "none" THEN frac
    ELSE Returned(<<whole[1] * frac.val[2] + frac.val[1] * whole[2], whole[2] * frac.val[2]>>)

\* whole, frac = parts; return float(whole) + _fraction_to_float(frac)
MixedOf(parts) ==
    IF Len(parts) # 2 THEN Raised("ValueError")
    ELSE IF ~FloatOk(parts[1]) THEN Raised("ValueError")
    ELSE AddFloats(FloatOf(parts[1]), fraction_to_float(parts[2]))

\* The three forms of a value: "whole fraction", "n/d", a number
ConvertValue(value) ==
    IF Contains(value, " ") THEN MixedOf(SplitOn(value, " "))
    ELSE IF Contains(value, "/") THEN fraction_to_float(value)
    ELSE IF ~FloatOk(value) THEN Raised("ValueError")
    ELSE Returned(FloatOf(value))

\* if value.startswith("P"): value = value[1:]
DropP(value) == IF StartsWith(value, <<"P">>) THEN SliceFrom(value, 1) ELSE value

\* except ValueError: return None
CatchValueError(r) == IF r.exc = "ValueError" THEN Returned(None) ELSE r

convert_visibility_to_float(token) == CatchValueError(ConvertValue(DropP(DropLast(token, 2))))

\* The loop of _extract_visibility from token i on; Miles is the body of the
\* loop for a token that ends in SM, given what the conversion gave
RECURSIVE VisibilityLoop(_, _)
Miles(tokens, i, miles) ==
    IF miles.exc # "none" THEN miles
    ELSE IF miles.val = None THEN VisibilityLoop(tokens, i + 1)
    ELSE Returned(<<"V","i","s","i","b","i","l","i","t","y"," ">> \o FormatG(miles.val) \o <<" ","s","t","a","t","u","t","e"," ","m","i","l","e","s">>)
VisibilityLoop(tokens, i) ==
    IF i > Len(tokens) THEN Returned(None)
    ELSE IF EndsWith(tokens[i], <<"S","M">>)
    THEN Miles(tokens, i, convert_visibility_to_float(tokens[i]))
    ELSE VisibilityLoop(tokens, i + 1)

extract_visibility(tokens) == VisibilityLoop(tokens, 1)

-----------------------------------------------------------------------------
(* Pressure *)

\* ALTIMETER_PATTERN.match(token): ^(A|Q)(?P<value>\d{4})$
ALTIMETER_PATTERN(s) ==
    /\ Len(s) >= 5
    /\ s[1] \in {"A", "Q"}
    /\ IsDigitStr(Slice(s, 1, 5))
    /\ AtEnd(s, 5)

\* round(value / 100.0 * 33.8639), that is value * 338639 / 1000000 rounded
\* to the nearest integer (no four-digit value gives a tie).  The product is
\* split as 1000 * (338 * value) + 639 * value to stay within 32 bits.
InchesToHpa(value) ==
    LET hi == 338 * value
    IN  (hi \div 1000) + RoundHalfEven(1000 * (hi % 1000) + 639 * value, 1000000)

\* The body of the loop of _extract_pressure for a matched token
RECURSIVE PressureLoop(_, _)
PressureOf(tokens, i, prefix, value) ==
    IF prefix = "A" THEN <<"P","r","e","s","s","u","r","e"," ">> \o IntToStr(InchesToHpa(value)) \o <<" ","h","P","a">>
    ELSE IF prefix = "Q" THEN <<"P","r","e","s","s","u","r","e"," ">> \o IntToStr(value) \o <<" ","h","P","a">>
    ELSE PressureLoop(tokens, i + 1)

\* The loop of _extract_pressure from token i on
PressureLoop(tokens, i) ==
    IF i > Len(tokens) THEN None
    ELSE IF ~ALTIMETER_PATTERN(tokens[i]) THEN PressureLoop(tokens, i + 1)
    ELSE PressureOf(tokens, i, tokens[i][1], IntOf(Slice(tokens[i], 1, 5)))

extract_pressure(tokens) == PressureLoop(tokens, 1)

-----------------------------------------------------------------------------
(* Present weather *)

\* _decode_intensity without the "VC" case
decode_intensity_no_vicinity(modifier) ==
    IF modifier = <<"-">> THEN <<"L","i","g","h","t"," ">>
    ELSE IF modifier = <<"+">> THEN <<"H","e","a","v","y"," ">>
    ELSE <<>>

decode_intensity(modifier) ==
    IF modifier = <<"-">> THEN <<"L","i","g","h","t"," ">>
    ELSE IF modifier = <<"+">> THEN <<"H","e","a","v","y"," ">>
    ELSE IF modifier = <<"V","C">> THEN <<"I","n"," ","t","h","e"," ","v","i","c","i","n","i","t","y",":"," ">>
    ELSE <<>>

\* The inner loop of _extract_weather: the first code of WEATHER_CODES, from
\* entry k on, that ends the token; 0 when there is none
RECURSIVE FirstCode(_, _)
FirstCode(token, k) ==
    IF k > Len(WEATHER_CODES) THEN 0
    ELSE IF EndsWith(token, WEATHER_CODES[k][1]) THEN k
    ELSE FirstCode(token, k + 1)

\* The entry of the token whose suffix is the code of entry k
Phenomenon(token, k) ==
    decode_intensity(DropLast(token, Len(WEATHER_CODES[k][1]))) \o WEATHER_CODES[k][2]

\* The outer loop of _extract_weather from token i on; Matched is its body
\* given the entry k found by the inner loop
RECURSIVE WeatherLoop(_, _, _)
Matched(tokens, i, phenomena, k) ==
    IF k = 0 THEN WeatherLoop(tokens, i + 1, phenomena)
    ELSE WeatherLoop(tokens, i + 1, Append(phenomena, Phenomenon(tokens[i], k)))
WeatherLoop(tokens, i, phenomena) ==
    IF i > Len(tokens) THEN phenomena
    ELSE Matched(tokens, i, phenomena, FirstCode(tokens[i], 1))

\* cleaned = [item.replace("  ", " ").strip() for item in phenomena]
WeatherPhrase(phenomena) ==
    IF phenomena # <<>>
    THEN <<"W","e","a","t","h","e","r",":"," ">>
         \o Join(<<","," ">>, [j \in 1..Len(phenomena) |-> Strip(ReplaceDoubleSpace(phenomena[j]))])
    ELSE None

extract_weather(tokens) == WeatherPhrase(WeatherLoop(tokens, 1, <<>>))

-----------------------------------------------------------------------------
(* parse_metar *)

UNPARSEABLE == <<"U","n","a","b","l","e"," ","t","o"," ","p","a","r","s","e"," ","M","E","T","A","R"," ","r","e","p","o","r","t",".">>

\* "if phrase: phrases.append(phrase)"
AppendIf(phrases, phrase) ==
    IF phrase # None /\ phrase # <<>> THEN Append(phrases, phrase) ELSE phrases

\* The local variables of parse_metar before it has assigned any
NoFrame ==
    [tokens |-> <<>>, sky_phrases |-> <<>>, temp_phrase |-> None, dew_phrase |-> None,
     wind_phrase |-> None, visibility_phrase |-> None, pressure_phrase |-> None,
     weather_phrase |-> None, phrases |-> <<>>, deduplicated |-> <<>>]

\* The statements of parse_metar up to the call of _extract_visibility
BeforeVisibility(tokens) ==
    [NoFrame EXCEPT !.tokens = tokens,
                    !.sky_phrases = extract_sky_conditions(tokens),
                    !.temp_phrase = extract_temperature(tokens),
                    !.dew_phrase = extract_dew_point(tokens),
                    !.wind_phrase = extract_wind(tokens)]
Phrases4(f) ==
    [f EXCEPT !.phrases =
        AppendIf(AppendIf(AppendIf(f.sky_phrases, f.temp_phrase), f.dew_phrase), f.wind_phrase)]

\* The statements of parse_metar after _extract_visibility has returned
AfterVisibility(f, visibility_phrase) ==
    [f EXCEPT !.visibility_phrase = visibility_phrase,
              !.pressure_phrase = extract_pressure(f.tokens),
              !.weather_phrase = extract_weather(f.tokens)]
Phrases7(f) ==
    [f EXCEPT !.phrases =
        AppendIf(AppendIf(AppendIf(f.phrases, f.visibility_phrase), f.pressure_phrase),
                 f.weather_phrase)]

\* return ", ".join(_deduplicate_preserve_order(phrases)) if phrases else ...
Joined(f, d) == [exc |-> "none", val |-> Join(<<","," ">>, d), frame |-> [f EXCEPT !.deduplicated = d]]
Return(f) ==
    IF f.phrases # <<>> THEN Joined(f, deduplicate_preserve_order(f.phrases))
    ELSE [exc |-> "none", val |-> UNPARSEABLE, frame |-> f]

\* _extract_visibility may be left by an exception, and then so is
\* parse_metar, the statements after the call not being run
Visibility(f, vis) ==
    IF vis.exc # "none" THEN [exc |-> vis.exc, val |-> None, frame |-> f]
    ELSE Return(Phrases7(AfterVisibility(f, vis.val)))

Matchers(f) == Visibility(f, extract_visibility(f.tokens))

\* parse_metar: exc is the exception that left it ("none": it returned val),
\* frame its local variables at that point
parse_metar(raw) ==
    IF raw = <<>> THEN [exc |-> "none", val |-> UNPARSEABLE, frame |-> NoFrame]
    ELSE Matchers(Phrases4(BeforeVisibility(SplitWs(raw))))

-----------------------------------------------------------------------------
(* fetch_metar *)

\* What requests.get and raise_for_status give: a RequestException, or the
\* text of the answer
NetworkFailure == [failed |-> TRUE, text |-> <<>>]
Answer(text) == [failed |-> FALSE, text |-> text]

\* [line.strip() for line in lines if line.strip()], from line i on
RECURSIVE StripLines(_, _)
StripLines(lines, i) ==
    IF i > Len(lines) THEN <<>>
    ELSE IF Strip(lines[i]) # <<>> THEN <<Strip(lines[i])>> \o StripLines(lines, i + 1)
    ELSE StripLines(lines, i + 1)

\* The loop "for report in reports: if report.upper().startswith(icao_code)"
\* from report i on: the index of the first such report, 0 when there is none
RECURSIVE ReportLoop(_, _, _)
ReportLoop(reports, icao, i) ==
    IF i > Len(reports) THEN 0
    ELSE IF StartsWith(Upper(reports[i]), icao) THEN i
    ELSE ReportLoop(reports, icao, i + 1)

\* The statements of fetch_metar after reports is built; i is what the loop
\* found
SelectReport(reports, i) ==
    IF reports = <<>>
    THEN [exc |-> "ValueError", msg |-> "No METAR report found for that station.", val |-> None]
    ELSE IF i # 0 THEN [exc |-> "none", msg |-> "", val |-> reports[i]]
    ELSE [exc |-> "none", msg |-> "", val |-> reports[1]]

FirstReport(reports, icao) == SelectReport(reports, ReportLoop(reports, icao, 1))

\* fetch_metar: exc is the exception raised ("none": it returned val), msg
\* the text of the exception
fetch_metar(icao, resp) ==
    IF resp.failed
    THEN [exc |-> "RuntimeError", msg |-> "Unable to reach METAR service", val |-> None]
    ELSE FirstReport(StripLines(SplitLines(resp.text), 1), icao)

-----------------------------------------------------------------------------
(* Inputs of the model *)

\* All sequences over S of length at most n
SeqsUpTo(S, n) == UNION {[1..k -> S] : k \in 0..n}

\* Arguments of validate_icao: letters of both cases, a digit, a blank and a
\* newline
CodeChars == {"A", "z", "7", " ", "\n"}
Codes == SeqsUpTo(CodeChars, MaxCodeLen)

\* Arguments of _deduplicate_preserve_order
PhrasePool == {<<"a">>, <<"A">>, <<"a","b">>, <<"A","b">>, <<"A","B">>, <<"b">>}
PhraseLists == SeqsUpTo(PhrasePool, MaxItems)

\* Tokens of the raw reports
TokenPool == {
    <<"K","J","F","K">>,
    <<"F","E","W","0","2","5">>, <<"C","A","V","O","K">>, <<"C","L","R">>,
    <<"2","8","/","1","9">>, <<"M","0","5","/","M","1","0">>,
    <<"1","8","0","1","5","G","2","5","K","T">>, <<"V","R","B","0","3","K","T">>,
    <<"1","0","S","M">>, <<"1","/","2","S","M">>, <<"1","/","0","S","M">>, <<"1","/","2","/","3","S","M">>,
    <<"A","2","9","9","2">>, <<"Q","1","0","2","0">>,
    <<"-","R","A">>, <<"V","C","F","G">> }

\* Tokens for _extract_weather: every intensity prefix, a prefix that is no
\* intensity, no prefix, a station code that ends in a phenomenon code, and
\* tokens that end in none
WeatherTokenPool == {
    <<"K","J","F","K">>, <<"1","0","S","M">>, <<"E","G","S","S">>,
    <<"-","R","A">>, <<"+","R","A">>, <<"V","C","F","G">>, <<"+","T","S","R","A">>, <<"B","R">> }

\* Raw reports: the tokens joined by blanks, and reports of whitespace alone
RawReports ==
    {Join(<<" ">>, ts) : ts \in SeqsUpTo(TokenPool, MaxTokens)} \cup {<<" ">>, <<" ","\n"," ">>}

\* What the form of the page posts as 'icao'
FormValues == {<<>>, <<"k","j","f","k">>, <<" ","e","g","l","l","\n">>, <<"K","D","E","N">>, <<"1","2","a","b">>, <<"a","b","c">>}

\* Lines of the remote service's answer
LinePool == {<<"K","J","F","K"," ","1","0","S","M"," ","-","R","A">>, <<"e","g","l","l"," ","2","8","/","1","9"," ">>, <<"E","G","L","L"," ","1","/","0","S","M">>, <<" ">>}
Responses ==
    {NetworkFailure} \cup {Answer(Join(<<"\n">>, ls)) : ls \in SeqsUpTo(LinePool, MaxLines)}

-----------------------------------------------------------------------------
(* The state machines *)

\* The values of the variables an operation does not use
IdleValidate == code = <<>> /\ valid = FALSE
IdleCardinal == degrees = 0 /\ cardinal = <<>>
IdleDedup == items = <<>> /\ result = <<>>
IdleParse == raw_metar = <<>> /\ frame = NoFrame /\ translated = <<>> /\ raised = "none"
IdleIndex ==
    /\ method = "GET" /\ form_icao = <<>> /\ icao_code = <<>> /\ response = NetworkFailure
    /\ error = "" /\ calls = <<>>

\* validate_icao applied to every code
InitValidate ==
    /\ pc = "call" /\ code \in Codes /\ valid = FALSE
    /\ IdleCardinal /\ IdleDedup /\ IdleParse /\ IdleIndex

ValidateIcao ==
    /\ pc = "call"
    /\ valid' = validate_icao(code)
    /\ pc' = "return"
    /\ UNCHANGED <<code, degrees, cardinal, items, result, method, form_icao, icao_code,
                   response, raw_metar, frame, translated, error, raised, calls>>

SpecValidate == InitValidate /\ [][ValidateIcao]_vars

\* _degrees_to_cardinal applied to every bearing
InitCardinal ==
    /\ pc = "call" /\ degrees \in 0..MaxBearing /\ cardinal = <<>>
    /\ IdleValidate /\ IdleDedup /\ IdleParse /\ IdleIndex

DegreesToCardinal ==
    /\ pc = "call"
    /\ cardinal' = degrees_to_cardinal(degrees)
    /\ pc' = "return"
    /\ UNCHANGED <<code, valid, degrees, items, result, method, form_icao, icao_code,
                   response, raw_metar, frame, translated, error, raised, calls>>

SpecCardinal == InitCardinal /\ [][DegreesToCardinal]_vars

\* _deduplicate_preserve_order applied to every list of phrases
InitDedup ==
    /\ pc = "call" /\ items \in PhraseLists /\ result = <<>>
    /\ IdleValidate /\ IdleCardinal /\ IdleParse /\ IdleIndex

DeduplicatePreserveOrder ==
    /\ pc = "call"
    /\ result' = deduplicate_preserve_order(items)
    /\ pc' = "return"
    /\ UNCHANGED <<code, valid, degrees, cardinal, items, method, form_icao, icao_code,
                   response, raw_metar, frame, translated, error, raised, calls>>

SpecDedup == InitDedup /\ [][DeduplicatePreserveOrder]_vars

\* parse_metar applied to every raw report
InitParse ==
    /\ pc = "call" /\ raw_metar \in RawReports
    /\ frame = NoFrame /\ translated = <<>> /\ raised = "none"
    /\ IdleValidate /\ IdleCardinal /\ IdleDedup /\ IdleIndex

ParseMetarReturns(r) ==
    /\ raised' = r.exc
    /\ translated' = r.val
    /\ frame' = r.frame

ParseMetar ==
    /\ pc = "call"
    /\ ParseMetarReturns(parse_metar(raw_metar))
    /\ pc' = "return"
    /\ UNCHANGED <<code, valid, degrees, cardinal, items, result, method, form_icao,
                   icao_code, response, raw_metar, error, calls>>

SpecParse == InitParse /\ [][ParseMetar]_vars

\* _extract_weather applied to every list of tokens
InitWeather ==
    /\ pc = "call"
    /\ \E ts \in SeqsUpTo(WeatherTokenPool, MaxTokens) : frame = [NoFrame EXCEPT !.tokens = ts]
    /\ raw_metar = <<>> /\ translated = <<>> /\ raised = "none"
    /\ IdleValidate /\ IdleCardinal /\ IdleDedup /\ IdleIndex

ExtractWeather ==
    /\ pc = "call"
    /\ frame' = [frame EXCEPT !.weather_phrase = extract_weather(frame.tokens)]
    /\ pc' = "return"
    /\ UNCHANGED <<code, valid, degrees, cardinal, items, result, method, form_icao,
                   icao_code, response, raw_metar, translated, error, raised, calls>>

SpecWeather == InitWeather /\ [][ExtractWeather]_vars

\* The request handler index, statement by statement
Init ==
    /\ pc = "idle"
    /\ IdleValidate /\ IdleCardinal /\ IdleDedup /\ IdleParse /\ IdleIndex

\* A request arrives: raw_metar = "", translated = "", error = ""
Request ==
    /\ pc \in {"idle", "rendered", "failed"}
    /\ method' \in {"GET", "POST"}
    /\ form_icao' \in FormValues
    /\ raw_metar' = <<>> /\ translated' = <<>> /\ error' = ""
    /\ icao_code' = <<>> /\ valid' = FALSE /\ raised' = "none" /\ calls' = <<>>
    /\ frame' = NoFrame /\ response' = NetworkFailure
    /\ pc' = "method"
    /\ UNCHANGED <<code, degrees, cardinal, items, result>>

\* if request.method == 'POST': icao_code = ....strip().upper()
Method ==
    /\ pc = "method"
    /\ IF method = "POST"
       THEN icao_code' = Upper(Strip(form_icao)) /\ pc' = "validate"
       ELSE icao_code' = icao_code /\ pc' = "render"
    /\ UNCHANGED <<code, valid, degrees, cardinal, items, result, method, form_icao,
                   response, raw_metar, frame, translated, error, raised, calls>>

\* if not validate_icao(icao_code): error = "Please enter ..."
Validate ==
    /\ pc = "validate"
    /\ valid' = validate_icao(icao_code)
    /\ calls' = Append(calls, "validate_icao")
    /\ IF validate_icao(icao_code)
       THEN error' = error /\ pc' = "fetch"
       ELSE error' = "Please enter a valid 4-letter ICAO code." /\ pc' = "render"
    /\ UNCHANGED <<code, degrees, cardinal, items, result, method, form_icao, icao_code,
                   response, raw_metar, frame, translated, raised>>

\* raw_metar = fetch_metar(icao_code), with "except (RuntimeError,
\* ValueError) as exc: error = str(exc)"
Fetched(r) ==
    IF r.exc = "none"
    THEN raw_metar' = r.val /\ error' = error /\ pc' = "parse"
    ELSE raw_metar' = raw_metar /\ error' = r.msg /\ pc' = "render"

Fetch ==
    /\ pc = "fetch"
    /\ \E resp \in Responses : response' = resp /\ Fetched(fetch_metar(icao_code, resp))
    /\ calls' = Append(calls, "fetch_metar")
    /\ UNCHANGED <<code, valid, degrees, cardinal, items, result, method, form_icao,
                   icao_code, frame, translated, raised>>

\* translated = parse_metar(raw_metar), with "except (RuntimeError,
\* ValueError) as exc: error = str(exc)"; any other exception leaves index
Parsed(r) ==
    /\ frame' = r.frame
    /\ IF r.exc = "none"
       THEN translated' = r.val /\ error' = error /\ raised' = raised /\ pc' = "render"
       ELSE IF r.exc \in {"RuntimeError", "ValueError"}
       THEN translated' = translated /\ error' = r.exc /\ raised' = raised /\ pc' = "render"
       ELSE translated' = translated /\ error' = error /\ raised' = r.exc /\ pc' = "failed"

Parse ==
    /\ pc = "parse"
    /\ Parsed(parse_metar(raw_metar))
    /\ calls' = Append(calls, "parse_metar")
    /\ UNCHANGED <<code, valid, degrees, cardinal, items, result, method, form_icao,
                   icao_code, response, raw_metar>>

\* return render_template('index.html', ...)
Render ==
    /\ pc = "render"
    /\ calls' = Append(calls, "render_template")
    /\ pc' = "rendered"
    /\ UNCHANGED <<code, valid, degrees, cardinal, items, result, method, form_icao,
                   icao_code, response, raw_metar, frame, translated, error, raised>>

Next == Request \/ Method \/ Validate \/ Fetch \/ Parse \/ Render

Spec == Init /\ [][Next]_vars

-----------------------------------------------------------------------------
(* Properties *)

\* The items of its at the indexes in K, in their order
RECURSIVE PickFrom(_, _, _)
PickFrom(its, K, i) ==
    IF i > Len(its) THEN <<>>
    ELSE IF i \in K THEN <<its[i]>> \o PickFrom(its, K, i + 1)
    ELSE PickFrom(its, K, i + 1)
Pick(its, K) == PickFrom(its, K, 1)

EqualIgnoringCase(a, b) == Lower(a) = Lower(b)

\* The indexes of the first occurrences in its, ignoring case
FirstOccurrences(its) ==
    {i \in 1..Len(its) : \A j \in 1..(i - 1) : ~EqualIgnoringCase(its[j], its[i])}

\* C1: parse_metar never raises: for every raw report it returns a string,
\* and a token a matcher cannot decode only costs that matcher's phrase.
C1_NeverRaises ==
    pc = "return" => raised = "none" /\ translated # None

\* C2: validate_icao is true exactly for the strings of four letters; any
\* other length, and any character that is not a letter (a blank, a trailing
\* newline), makes it false.
C2_ExactlyFourLetters ==
    pc = "return" => (valid <=> (Len(code) = 4 /\ \A i \in 1..Len(code) : IsAlpha(code[i])))

\* C3: parse_metar returns the sentinel exactly when no matcher produced a
\* phrase (an empty or whitespace-only report included), and in every other
\* case the non-empty ", "-joined phrases, never the sentinel.
C3_NoPhrase ==
    /\ frame.sky_phrases = <<>>
    /\ \A p \in {frame.temp_phrase, frame.dew_phrase, frame.wind_phrase,
                 frame.visibility_phrase, frame.pressure_phrase, frame.weather_phrase} :
          p = None
C3_SentinelExactly ==
    pc = "return" =>
        IF C3_NoPhrase THEN translated = UNPARSEABLE
        ELSE /\ translated = Join(<<","," ">>, frame.deduplicated)
             /\ frame.deduplicated # <<>>
             /\ translated # <<>>
             /\ translated # UNPARSEABLE

\* C4: the result of _deduplicate_preserve_order is a subsequence of the
\* input, holds no two phrases equal ignoring case, holds an equal (ignoring
\* case) of every input phrase, and is made of the first occurrences, as
\* written, in their order.
C4_Deduplicated ==
    pc = "return" =>
        /\ \E K \in SUBSET (1..Len(items)) : result = Pick(items, K)
        /\ \A i, j \in 1..Len(result) : i # j => ~EqualIgnoringCase(result[i], result[j])
        /\ \A i \in 1..Len(items) : \E j \in 1..Len(result) : EqualIgnoringCase(items[i], result[j])
        /\ result = Pick(items, FirstOccurrences(items))
C4_Witness ==
    /\ pc = "return"
    /\ items = <<<<"A","b">>, <<"b">>, <<"A","B">>>>
    /\ result = <<<<"A","b">>, <<"b">>>>

\* The matcher a phrase comes from, read off its text: 1 sky conditions,
\* 2 temperature, 3 dew point, 4 wind, 5 visibility, 6 pressure, 7 weather
KindOf(phrase) ==
    IF StartsWith(phrase, <<"T","e","m","p","e","r","a","t","u","r","e"," ">>) THEN 2
    ELSE IF StartsWith(phrase, <<"D","e","w"," ","p","o","i","n","t"," ">>) THEN 3
    ELSE IF \/ StartsWith(phrase, <<"C","a","l","m"," ","w","i","n","d","s">>)
            \/ StartsWith(phrase, <<"V","a","r","i","a","b","l","e"," ","w","i","n","d","s">>)
            \/ StartsWith(phrase, <<"W","i","n","d"," ","f","r","o","m"," ","t","h","e"," ">>) THEN 4
    ELSE IF StartsWith(phrase, <<"V","i","s","i","b","i","l","i","t","y"," ">>) THEN 5
    ELSE IF StartsWith(phrase, <<"P","r","e","s","s","u","r","e"," ">>) THEN 6
    ELSE IF StartsWith(phrase, <<"W","e","a","t","h","e","r",":"," ">>) THEN 7
    ELSE 1

\* The tokens a matcher takes a phrase from
IsSkyToken(t) == extract_sky_conditions(<<t>>) # <<>>
IsWeatherToken(t) == FirstCode(t, 1) # 0
RECURSIVE SkyTokens(_)
SkyTokens(ts) ==
    IF ts = <<>> THEN <<>>
    ELSE (IF IsSkyToken(Head(ts)) THEN <<Head(ts)>> ELSE <<>>) \o SkyTokens(Tail(ts))
RECURSIVE WeatherTokens(_)
WeatherTokens(ts) ==
    IF ts = <<>> THEN <<>>
    ELSE (IF IsWeatherToken(Head(ts)) THEN <<Head(ts)>> ELSE <<>>) \o WeatherTokens(Tail(ts))
\* The visibility matcher accepts a token that ends in SM and whose value
\* converts to a number
Converts(t) ==
    /\ EndsWith(t, <<"S","M">>)
    /\ ConvertValue(DropP(DropLast(t, 2))).exc = "none"
RECURSIVE FirstVisibility(_)
FirstVisibility(ts) ==
    IF ts = <<>> THEN None
    ELSE IF Converts(Head(ts)) THEN Head(ts) ELSE FirstVisibility(Tail(ts))
FirstTemp(ts) == IF TempLoop(ts, 1) = 0 THEN None ELSE ts[TempLoop(ts, 1)]
FirstWind(ts) == IF WindLoop(ts, 1) = 0 THEN None ELSE ts[WindLoop(ts, 1)]
RECURSIVE FirstPressure(_)
FirstPressure(ts) ==
    IF ts = <<>> THEN None
    ELSE IF ALTIMETER_PATTERN(Head(ts)) THEN Head(ts) ELSE FirstPressure(Tail(ts))

\* ts with the tokens at i and i + 1 exchanged
SwapAt(ts, i) == [k \in 1..Len(ts) |-> IF k = i THEN ts[i + 1] ELSE IF k = i + 1 THEN ts[i] ELSE ts[k]]

\* us keeps the order of the sky tokens and of the weather tokens of ts, and
\* the first match of every single-value matcher
SameMatches(ts, us) ==
    /\ SkyTokens(ts) = SkyTokens(us)
    /\ WeatherTokens(ts) = WeatherTokens(us)
    /\ FirstTemp(ts) = FirstTemp(us)
    /\ FirstWind(ts) = FirstWind(us)
    /\ FirstVisibility(ts) = FirstVisibility(us)
    /\ FirstPressure(ts) = FirstPressure(us)

SameOutcome(r) == r.exc = raised /\ r.val = translated

\* C5: the phrases of the output are in the order sky conditions,
\* temperature, dew point, wind, visibility, pressure, weather, wherever the
\* tokens stand in the report: exchanging two neighbouring tokens in a way
\* that keeps the order of the sky tokens, the order of the weather tokens
\* and the first match of each single-value matcher leaves the outcome as it
\* is (such an exchange is the smallest of the permutations concerned).
C5_MatcherOrder ==
    pc = "return" =>
        /\ \A i, j \in 1..Len(frame.deduplicated) :
              i < j => KindOf(frame.deduplicated[i]) <= KindOf(frame.deduplicated[j])
        /\ raised = "none" /\ frame.phrases # <<>> =>
              translated = Join(<<","," ">>, frame.deduplicated)
        /\ \A i \in 1..(Len(SplitWs(raw_metar)) - 1) :
              SameMatches(SplitWs(raw_metar), SwapAt(SplitWs(raw_metar), i)) =>
                  SameOutcome(parse_metar(Join(<<" ">>, SwapAt(SplitWs(raw_metar), i))))

\* C6: each single-value matcher contributes at most one phrase, decoded
\* from the first token its pattern accepts (for visibility: the first token
\* ending in SM whose value converts to a number, the unparseable SM tokens
\* before it being skipped), and the tokens after that token do not matter.
RECURSIVE FirstConverting(_, _)
FirstConverting(ts, i) ==
    IF i > Len(ts) THEN 0 ELSE IF Converts(ts[i]) THEN i ELSE FirstConverting(ts, i + 1)
RECURSIVE FirstAltimeter(_, _)
FirstAltimeter(ts, i) ==
    IF i > Len(ts) THEN 0 ELSE IF ALTIMETER_PATTERN(ts[i]) THEN i ELSE FirstAltimeter(ts, i + 1)
\* The phrase is the one of the token at i alone, whatever follows it
C6_Temperature(ts, i) ==
    /\ frame.temp_phrase = (IF i = 0 THEN None ELSE extract_temperature(<<ts[i]>>))
    /\ frame.dew_phrase = (IF i = 0 THEN None ELSE extract_dew_point(<<ts[i]>>))
    /\ i # 0 => \A t \in TokenPool :
           /\ extract_temperature(Append(SubSeq(ts, 1, i), t)) = frame.temp_phrase
           /\ extract_dew_point(Append(SubSeq(ts, 1, i), t)) = frame.dew_phrase
C6_Wind(ts, i) ==
    /\ frame.wind_phrase = (IF i = 0 THEN None ELSE extract_wind(<<ts[i]>>))
    /\ i # 0 => \A t \in TokenPool :
           extract_wind(Append(SubSeq(ts, 1, i), t)) = frame.wind_phrase
C6_Visibility(ts, i) ==
    /\ frame.visibility_phrase = (IF i = 0 THEN None ELSE extract_visibility(<<ts[i]>>).val)
    /\ i # 0 => \A t \in TokenPool :
           extract_visibility(Append(SubSeq(ts, 1, i), t)) = Returned(frame.visibility_phrase)
C6_Pressure(ts, i) ==
    /\ frame.pressure_phrase = (IF i = 0 THEN None ELSE extract_pressure(<<ts[i]>>))
    /\ i # 0 => \A t \in TokenPool :
           extract_pressure(Append(SubSeq(ts, 1, i), t)) = frame.pressure_phrase
C6_FirstMatchWins ==
    pc = "return" /\ raw_metar # <<>> =>
        /\ C6_Temperature(SplitWs(raw_metar), TempLoop(SplitWs(raw_metar), 1))
        /\ C6_Wind(SplitWs(raw_metar), WindLoop(SplitWs(raw_metar), 1))
        /\ C6_Visibility(SplitWs(raw_metar), FirstConverting(SplitWs(raw_metar), 1))
        /\ C6_Pressure(SplitWs(raw_metar), FirstAltimeter(SplitWs(raw_metar), 1))

\* C7: for every bearing d in 0..360 the name is the entry of the table at
\* round(d / 22.5) mod 16, an index in 0..15; 354..360 and 0..5 give north,
\* 180 south and 270 west.
C7_Cardinal ==
    pc = "return" =>
        /\ RoundHalfEven(2 * degrees, 45) % 16 \in 0..15
        /\ CardinalIndex(degrees) \in 0..15
        /\ cardinal = CARDINAL_DIRECTIONS[(RoundHalfEven(2 * degrees, 45) % 16) + 1]
        /\ degrees \in (354..360) \cup (0..5) => cardinal = <<"n","o","r","t","h">>
        /\ degrees = 180 => cardinal = <<"s","o","u","t","h">>
        /\ degrees = 270 => cardinal = <<"w","e","s","t">>
C7_Witness ==
    /\ pc = "return"
    /\ degrees = 354
    /\ cardinal = <<"n","o","r","t","h">>

\* C8: on every POST index calls the validator, then fetch_metar only if the
\* trimmed, upper-cased code is valid, then parse_metar only if fetch_metar
\* returned a report; every request ends by rendering, and an invalid code
\* or a failed fetch renders a non-empty error with no report and no
\* translation.
C8_ValidateFetchParseRender ==
    /\ \A k \in 1..Len(calls) :
          /\ calls[k] = "validate_icao" => k = 1 /\ method = "POST"
          /\ calls[k] = "fetch_metar" =>
                /\ k = 2 /\ calls[1] = "validate_icao"
                /\ valid /\ validate_icao(Upper(Strip(form_icao)))
          /\ calls[k] = "parse_metar" =>
                /\ k = 3 /\ calls[2] = "fetch_metar"
                /\ ~response.failed /\ raw_metar # <<>>
    /\ pc # "failed"
    /\ pc = "rendered" /\ method = "POST" =>
          /\ calls[1] = "validate_icao"
          /\ calls[Len(calls)] = "render_template"
          /\ (~valid \/ Len(calls) = 3) <=> error # ""
          /\ error # "" => raw_metar = <<>> /\ translated = <<>>

\* The phenomenon codes, and what the claim says of a token
KnownCodes == {WEATHER_CODES[k][1] : k \in 1..Len(WEATHER_CODES)}
HasKnownSuffix(t) == Len(t) >= 2 /\ SubSeq(t, Len(t) - 1, Len(t)) \in KnownCodes
IntensityOf(prefix) ==
    CASE prefix = <<"-">> -> <<"L","i","g","h","t"," ">>
      [] prefix = <<"+">> -> <<"H","e","a","v","y"," ">>
      [] prefix = <<"V", "C">> -> <<"I","n"," ","t","h","e"," ","v","i","c","i","n","i","t","y",":"," ">>
      [] OTHER -> <<>>
EntryOf(t) ==
    IntensityOf(SubSeq(t, 1, Len(t) - 2))
    \o Lookup(WEATHER_CODES, SubSeq(t, Len(t) - 1, Len(t)))
RECURSIVE EntriesOf(_)
EntriesOf(ts) ==
    IF ts = <<>> THEN <<>>
    ELSE (IF HasKnownSuffix(Head(ts)) THEN <<EntryOf(Head(ts))>> ELSE <<>>) \o EntriesOf(Tail(ts))

\* C9: the weather phrase is "Weather: " and one entry for every token whose
\* suffix is a known code, in the order of the tokens, repeats kept, each the
\* decoded intensity and the description; no such token, no phrase.
C9_WeatherKeepsAll ==
    pc = "return" =>
        frame.weather_phrase =
            (IF EntriesOf(frame.tokens) = <<>> THEN None
             ELSE <<"W","e","a","t","h","e","r",":"," ">> \o Join(<<","," ">>, EntriesOf(frame.tokens)))
C9_Witness ==
    /\ pc = "return"
    /\ frame.tokens = <<<<"+","T","S","R","A">>, <<"V","C","F","G">>, <<"+","T","S","R","A">>>>
    /\ frame.weather_phrase = <<"W","e","a","t","h","e","r",":"," ","r","a","i","n",","," ","I","n"," ","t","h","e"," ","v","i","c","i","n","i","t","y",":"," ","f","o","g",","," ","r","a","i","n">>

\* C10: the deduplication of parse_metar removes sky-condition phrases only:
\* for every raw report the phrases the other six matchers produced are all
\* in the output, once each, and no phrase equals, ignoring case, a phrase of
\* another matcher.
C10_OnlySkyRemoved ==
    pc = "return" =>
        LET sky == Len(frame.sky_phrases)
            all == Len(frame.phrases)
            kept == Len(frame.deduplicated)
        IN  /\ kept >= all - sky
            /\ SubSeq(frame.deduplicated, kept - (all - sky) + 1, kept)
                   = SubSeq(frame.phrases, sky + 1, all)
            /\ \A p \in {frame.temp_phrase, frame.dew_phrase, frame.wind_phrase,
                         frame.visibility_phrase, frame.pressure_phrase,
                         frame.weather_phrase} \ {None} :
                  Cardinality({j \in 1..kept : EqualIgnoringCase(frame.deduplicated[j], p)}) = 1
            /\ \A i, j \in 1..all :
                  i < j /\ j > sky => ~EqualIgnoringCase(frame.phrases[i], frame.phrases[j])

=============================================================================
